---- MODULE Spec2Model ----
(***************************************************************************)
(* TrueChain backend: the streaming query pipeline.                        *)
(*                                                                         *)
(*   app/websocket/stream_manager.py  ConnectionManager (the registry)     *)
(*   app/services/search_service.py   SearchService (provider adapter)     *)
(*   app/services/graph_service.py    GraphService (history store)         *)
(*   app/routes/query_routes.py       websocket_stream_endpoint            *)
(*                                                                         *)
(* The program is single-threaded asyncio: a task runs without             *)
(* interruption from the completion of one `await` to the next `await`.    *)
(* Every action below is one such stretch of one task: the outcome of the  *)
(* awaited call, and all the code that follows it up to the next await.    *)
(***************************************************************************)
EXTENDS Integers, Sequences, FiniteSets, TLC

\* ------------------------------------------------------------------ bounds

\* Concurrent streaming sessions (each with a WebSocket of its own).
NumSessions == 2
\* Longest item list in a provider response.
MaxItems == 2

Sessions == 1..NumSessions
\* A session's WebSocket is named by the session's number.
Channels == Sessions
\* The session_id path parameter of /ws/stream/{session_id}.
SessionIds == {"a", "b"}

\* A key that a JSON object does not hold.
Absent == "<absent>"

\* ------------------------------------------------- the registry's dict
\* ConnectionManager.active_connections is a Python dict.  A CPython dict
\* keeps its entries in insertion order in an array: assigning to a new key
\* appends an entry, assigning to a present key overwrites its value in
\* place, and `del` leaves a dummy entry behind.  An iterator walks the
\* array by index, so the array, not only the mapping, is state.  (The
\* array is only compacted when it is full; the smallest table has five
\* entry slots and every key inserted here is inserted by the one connect
\* of a WebSocket, so no run of this model fills it.)

Dummy == [key |-> Absent, value |-> 0]

\* Python's None, where a WebSocket is expected.
None == Dummy.value

DictInit == << >>

DictLive(d) == {i \in 1..Len(d) : d[i] # Dummy}

\* ma_used: the number of live entries, len(d).
DictUsed(d) == Cardinality(DictLive(d))

DictHas(d, k) == \E i \in DictLive(d) : d[i].key = k

DictIndex(d, k) == CHOOSE i \in DictLive(d) : d[i].key = k

\* d.get(k): the value, or None.
DictGet(d, k) == IF DictHas(d, k) THEN d[DictIndex(d, k)].value ELSE None

\* d[k] = v
DictSet(d, k, v) ==
    IF DictHas(d, k)
    THEN [d EXCEPT ![DictIndex(d, k)].value = v]
    ELSE Append(d, [key |-> k, value |-> v])

\* del d[k] (the caller has checked `k in d`)
DictDel(d, k) == [d EXCEPT ![DictIndex(d, k)] = Dummy]

\* iter(d.items()): di_used is the size when the iterator was made, di_pos
\* the next array index, len the number of items still expected.
DictIter(d) == [di_used |-> DictUsed(d), di_pos |-> 1, len |-> DictUsed(d)]

\* The first live index at or after position p, or 0.
DictNextLive(d, p) ==
    IF \E i \in DictLive(d) : i >= p
    THEN CHOOSE i \in DictLive(d) : i >= p /\ \A j \in DictLive(d) : j >= p => i <= j
    ELSE 0

\* next(it): dictiter_iternextitem.  "size" and "keys" are the two
\* RuntimeErrors (dictionary changed size / keys changed during iteration).
DictIterNext(d, it) ==
    IF it.di_used # DictUsed(d)
    THEN [kind |-> "size", it |-> it, item |-> Dummy]
    ELSE LET i == DictNextLive(d, it.di_pos) IN
         IF i = 0
         THEN [kind |-> "stop", it |-> it, item |-> Dummy]
         ELSE IF it.len = 0
              THEN [kind |-> "keys", it |-> it, item |-> Dummy]
              ELSE [kind |-> "item",
                    it   |-> [it EXCEPT !.di_pos = i + 1, !.len = it.len - 1],
                    item |-> d[i]]

\* ------------------------------------------------- ConnectionManager

\* connect that keeps the WebSocket already registered under the id.
connectKeepsFirst(active, websocket, client_id) ==
    IF DictHas(active, client_id) THEN active ELSE DictSet(active, client_id, websocket)

\* connect, after `await websocket.accept()` has returned.
connect(active, websocket, client_id) == DictSet(active, client_id, websocket)

\* disconnect that leaves the entry in place.
disconnectKeeps(active, client_id) == active

disconnect(active, client_id) ==
    IF DictHas(active, client_id) THEN DictDel(active, client_id) ELSE active

\* ------------------------------------------------------- exceptions
\* Starlette raises WebSocketDisconnect from a receive on a closed socket and
\* (depending on the server and the version) WebSocketDisconnect or another
\* exception from a send on one.  Both derive from Exception.
WebSocketDisconnect == "WebSocketDisconnect"
OtherException == "Exception"
\* An exception: its class and str(e), a tuple of strings read as their
\* concatenation.
NoExc == [type |-> "", msg |-> << >>]
Exc(t, m) == [type |-> t, msg |-> m]
SendFailures == {Exc(WebSocketDisconnect, <<"1006">>), Exc(OtherException, <<"send failed">>)}

\* --------------------------------------------------- SearchService
\* SearchResult(title, url, content, source)
SearchResult(t, u, c, s) == [title |-> t, url |-> u, content |-> c, source |-> s]

\* dict.get(key, default) on a JSON object whose keys may be missing.
Get(obj, key, default) == IF obj[key] = Absent THEN default ELSE obj[key]

\* The items a provider response may list.  Two share a URL, one has no
\* "url" key at all.
TavilyItems ==
    { [title |-> "t1", url |-> "u1",   content |-> "c1"],
      [title |-> "t2", url |-> "u1",   content |-> "c2"],
      [title |-> "t3", url |-> Absent, content |-> "c3"] }
OrganicItems ==
    { [title |-> "t1", link |-> "u1",   snippet |-> "c1"],
      [title |-> "t2", link |-> "u1",   snippet |-> "c2"],
      [title |-> "t3", link |-> Absent, snippet |-> "c3"] }
RelatedItems == { [query |-> "rq"] }

SeqsUpTo(S, n) == UNION {[1..k -> S] : k \in 0..n}

HttpOk == 200
HttpStatuses == {HttpOk, 500}
StatusText(code) == IF code = HttpOk THEN "200" ELSE "500"
\* f"Related: {query}"
RelatedTitle(q) == IF q = "" THEN "Related: " ELSE "Related: rq"

\* What the POST to a provider can come back with: an HTTP response, or a
\* transport failure (httpx raises: network error, the 30 s timeout).
TavilyResponses(n) ==
    [status_code : HttpStatuses, answer : {Absent, "", "ans"},
     results : SeqsUpTo(TavilyItems, n)]
SerperResponses(n) ==
    { r \in [status_code : HttpStatuses, organic : SeqsUpTo(OrganicItems, n),
             relatedSearches : SeqsUpTo(RelatedItems, n)] :
        Len(r.organic) + Len(r.relatedSearches) <= n }
TransportFailure == [status_code |-> 0]

\* search_tavily with the answer appended after the items.
search_tavily_answer_last(response) ==
    IF response = TransportFailure
    THEN [exc |-> Exc(OtherException, <<"transport">>), results |-> << >>]
    ELSE IF response.status_code # HttpOk
    THEN [exc |-> Exc(OtherException, <<"Tavily API error: ", StatusText(response.status_code)>>),
          results |-> << >>]
    ELSE [exc |-> NoExc,
          results |->
             [i \in 1..Len(response.results) |->
                   SearchResult(Get(response.results[i], "title", ""),
                                Get(response.results[i], "url", ""),
                                Get(response.results[i], "content", ""),
                                "tavily")]
             \o (IF response.answer # Absent /\ response.answer # ""
                 THEN << SearchResult("Summary Answer", "", response.answer, "tavily") >>
                 ELSE << >>)]

\* search_tavily, from the response on: the exception raised, or the list.
search_tavily(response) ==
    IF response = TransportFailure
    THEN [exc |-> Exc(OtherException, <<"transport">>), results |-> << >>]
    ELSE IF response.status_code # HttpOk
    THEN [exc |-> Exc(OtherException, <<"Tavily API error: ", StatusText(response.status_code)>>),
          results |-> << >>]
    ELSE [exc |-> NoExc,
          results |->
             (IF response.answer # Absent /\ response.answer # ""
              THEN << SearchResult("Summary Answer", "", response.answer, "tavily") >>
              ELSE << >>)
             \o [i \in 1..Len(response.results) |->
                   SearchResult(Get(response.results[i], "title", ""),
                                Get(response.results[i], "url", ""),
                                Get(response.results[i], "content", ""),
                                "tavily")]]

search_serper(response) ==
    IF response = TransportFailure
    THEN [exc |-> Exc(OtherException, <<"transport">>), results |-> << >>]
    ELSE IF response.status_code # HttpOk
    THEN [exc |-> Exc(OtherException, <<"Serper API error: ", StatusText(response.status_code)>>),
          results |-> << >>]
    ELSE [exc |-> NoExc,
          results |->
             [i \in 1..Len(response.organic) |->
                   SearchResult(Get(response.organic[i], "title", ""),
                                Get(response.organic[i], "link", ""),
                                Get(response.organic[i], "snippet", ""),
                                "serper")]
             \o [i \in 1..Len(response.relatedSearches) |->
                   SearchResult(RelatedTitle(Get(response.relatedSearches[i], "query", "")),
                                "",
                                Get(response.relatedSearches[i], "query", ""),
                                "serper")]]

\* str.lower() on the search_type tags the model sends.
Lower(s) ==
    CASE s = "Serper" -> "serper"
      [] s = "SERPER" -> "serper"
      [] s = "Tavily" -> "tavily"
      [] OTHER -> s

\* search(query, search_type): the full fetch, given what the provider
\* answers.
search(search_type, response) ==
    IF Lower(search_type) = "serper"
    THEN search_serper(response)
    ELSE search_tavily(response)

\* The fetch at the head of search_streaming (its own copy of the choice).
search_streaming_fetch(search_type, response) ==
    IF Lower(search_type) = "serper"
    THEN search_serper(response)
    ELSE search_tavily(response)


\* ------------------------------------------------------------ state

VARIABLES
    pc,                  \* per session: the await its task is suspended at
    session_id,          \* per session: the path parameter
    chan,                \* per WebSocket: "open", or "closed" (the peer is gone)
    active_connections,  \* ConnectionManager.active_connections
    lastOp,              \* history: per id, the latest of the connect and
                         \* disconnect calls made for it
    query_text,          \* per session: local of the endpoint
    search_type,         \* per session: local of the endpoint
    response,            \* per session: what the provider call came back with
    fetched,             \* per session: `results` of search_streaming
    idx,                 \* per session: position of search_streaming's loop
    results,             \* per session: the endpoint's accumulator
    exc,                 \* per session: the exception `e` being handled
    emitted,             \* per session: the send_message calls made, in order
    wire,                \* per WebSocket: the messages written to it, in order,
                         \* each with the task that wrote it
    saved,               \* per session: the save_query_and_sources call made
    pm,                  \* the latest send_personal_message call
    bc,                  \* the broadcast task
    NEO4J_AVAILABLE,     \* graph_service: whether `import neo4j` succeeded
    store_reachable,     \* whether the graph store answers when the process starts
    driver,              \* GraphService.driver: None, or a driver object
    startup,             \* startup_event: "pending", "complete", "raised"
    queries,             \* the store's (:Query) nodes, in order of creation
    sources,             \* the store's (:Source) nodes, in order of creation
    refs,                \* the store's [:REFERENCES] relationships
    clock,               \* the store's datetime()
    task,                \* per HTTP or persisting caller: its call and position
    requests,            \* the number of POST /query requests and persisting
                         \* stages begun
    saveLog              \* history: the save calls that ended, and per key
                         \* the latest MERGE ... SET made for it

sessVars == <<pc, session_id, query_text, search_type, response, fetched, idx,
              results, exc, emitted, wire, saved>>
chanVars == <<chan>>
regVars == <<active_connections, lastOp>>
svcVars == <<NEO4J_AVAILABLE, store_reachable, driver, startup>>
graphVars == <<queries, sources, refs, clock, saveLog>>
storeVars == <<svcVars, graphVars, task, requests>>
opVars == <<pm, bc, storeVars>>
vars == <<pc, session_id, chan, active_connections, lastOp,
          query_text, search_type, response, fetched, idx, results, exc, emitted,
          wire, saved, pm, bc, storeVars>>

\* ----------------------------------------------------------- events
\* The JSON messages of the endpoint, with the outcome of the write.
BlankEvent ==
    [event |-> "", message |-> << >>, title |-> "", url |-> "", snippet |-> "",
     total_results |-> 0, ok |-> FALSE]

StatusEvent == [BlankEvent EXCEPT !.event = "status", !.message = <<"Searching sources...">>]
ErrorEvent(m) == [BlankEvent EXCEPT !.event = "error", !.message = m]
SourceEvent(r) ==
    [BlankEvent EXCEPT !.event = "source", !.title = r.title, !.url = r.url,
                       !.snippet = r.content]
DoneEvent(n) == [BlankEvent EXCEPT !.event = "done", !.total_results = n]

RequiredMessage == <<"Query text is required">>
SearchFailedMessage(e) == <<"Search failed: ">> \o e.msg
WebSocketErrorMessage(e) == <<"WebSocket error: ">> \o e.msg

\* A local that is not assigned yet; no provider call made yet.
Unset == "<unset>"
NoResponse == [status_code |-> -1]

NoSave == [called |-> FALSE, query_text |-> "", search_results |-> << >>,
           session_id |-> "", raised |-> FALSE]
NoOp == [op |-> "", websocket |-> None]
Connected(ws) == [op |-> "connect", websocket |-> ws]
Disconnected == [op |-> "disconnect", websocket |-> None]
NoSend == [client_id |-> "", websocket |-> None, wrote |-> FALSE, raised |-> "",
           after_disconnect |-> FALSE]
\* The broadcast task: where it is ("idle", "sending": suspended in a write,
\* "returned", "raised"), its dict iterator and loop variables, and, as
\* history, the WebSockets registered when it was called, those it wrote to in
\* order, those whose write succeeded, those whose write reported a
\* disconnect, the ids it removed, and the exception it raised.
NoBroadcast == [state |-> "idle", it |-> DictIter(DictInit), client_id |-> "",
                websocket |-> None, registered |-> {}, visits |-> << >>,
                written |-> {}, reported |-> {}, removed |-> {}, exc |-> ""]

\* ---------------------------------------------- graph store: state
\* The tasks that call the store: HTTP requests (POST /query, GET /history)
\* and the persisting stage of streaming sessions.
Callers == {"c1", "c2"}
\* The most POST /query requests and persisting stages a behaviour begins.
MaxRequests == 3
\* The query texts and the URLs that reach the store.  " " is a URL of
\* white space only.
Texts == {"q1", "q2", "q3"}
Urls == {"", " ", "u1", "u2"}

NoTask ==
    [kind |-> "", pc |-> "idle", query_text |-> "", search_type |-> "",
     session_id |-> "", search_results |-> << >>, i |-> 0, limit |-> 0,
     status |-> 0, detail |-> << >>, results |-> << >>, history |-> << >>,
     done |-> FALSE, total_results |-> 0, save_exc |-> NoExc]
NoMerge == [n |-> 0, timestamp |-> 0, session_id |-> "", title |-> "", snippet |-> "",
            source |-> ""]
\* What the save calls that returned were given (texts, results), whether
\* a save call raised, and the latest MERGE ... SET made per key.
NoSaveLog ==
    [texts |-> {}, results |-> {}, raised |-> FALSE,
     query |-> [x \in Texts |-> NoMerge], source |-> [u \in Urls |-> NoMerge]]

\* The process as it starts: whether the neo4j package imported, whether the
\* store answers; GraphService.__init__ sets driver = None.
StoreInit(available, reachable) ==
    /\ NEO4J_AVAILABLE = available
    /\ store_reachable = reachable
    /\ driver = "None"
    /\ startup = "pending"
    /\ queries = << >>
    /\ sources = << >>
    /\ refs = {}
    /\ clock = 0
    /\ task = [c \in Callers |-> NoTask]
    /\ requests = 0
    /\ saveLog = NoSaveLog

InitServer ==
    /\ pc = [s \in Sessions |-> "start"]
    /\ session_id = [s \in Sessions |-> ""]
    /\ chan = [c \in Channels |-> "open"]
    /\ active_connections = DictInit
    /\ lastOp = [id \in SessionIds |-> NoOp]
    /\ query_text = [s \in Sessions |-> Unset]
    /\ search_type = [s \in Sessions |-> Unset]
    /\ response = [s \in Sessions |-> NoResponse]
    /\ fetched = [s \in Sessions |-> << >>]
    /\ idx = [s \in Sessions |-> 0]
    /\ results = [s \in Sessions |-> << >>]
    /\ exc = [s \in Sessions |-> NoExc]
    /\ emitted = [s \in Sessions |-> << >>]
    /\ wire = [c \in Channels |-> << >>]
    /\ saved = [s \in Sessions |-> NoSave]
    /\ pm = NoSend
    /\ bc = NoBroadcast

Init == InitServer /\ StoreInit(TRUE, TRUE)

\* --------------------------------------- websocket_stream_endpoint

\* stream_manager.send_message(websocket, message): the write goes to the
\* WebSocket the endpoint holds, not through the registry.
\* The same send through the registry, to the WebSocket stored under the
\* session's id.
SentById(s, ev) ==
    /\ emitted' = [emitted EXCEPT ![s] = Append(@, [ev EXCEPT !.ok = TRUE])]
    /\ wire' = IF DictHas(active_connections, session_id[s])
               THEN [wire EXCEPT ![DictGet(active_connections, session_id[s])] =
                       Append(@, [task |-> s, message |-> [ev EXCEPT !.ok = TRUE]])]
               ELSE wire
Sent(s, ev) ==
    /\ emitted' = [emitted EXCEPT ![s] = Append(@, [ev EXCEPT !.ok = TRUE])]
    /\ wire' = [wire EXCEPT ![s] = Append(@, [task |-> s, message |-> [ev EXCEPT !.ok = TRUE]])]
NotSent(s, ev) ==
    /\ emitted' = [emitted EXCEPT ![s] = Append(@, ev)]
    /\ wire' = wire

\* An exception e reaches the endpoint's outer try: `except
\* WebSocketDisconnect` disconnects at once, `except Exception` first tries
\* to send one error event.
Raise(s, e) ==
    /\ exc' = [exc EXCEPT ![s] = e]
    /\ IF e.type = WebSocketDisconnect
       THEN /\ active_connections' = disconnect(active_connections, session_id[s])
            /\ lastOp' = [lastOp EXCEPT ![session_id[s]] = Disconnected]
            /\ pc' = [pc EXCEPT ![s] = "torn_down"]
       ELSE /\ pc' = [pc EXCEPT ![s] = "send_wserror"]
            /\ UNCHANGED regVars

\* await stream_manager.manager.connect(websocket, session_id): outside the
\* try, so a failed handshake leaves the endpoint as an exception.
Accept(s) ==
    /\ pc[s] = "start"
    /\ \E id \in SessionIds :
         /\ session_id' = [session_id EXCEPT ![s] = id]
         /\ IF chan[s] = "open"
            THEN /\ active_connections' = connect(active_connections, s, id)
                 /\ lastOp' = [lastOp EXCEPT ![id] = Connected(s)]
                 /\ pc' = [pc EXCEPT ![s] = "receive"]
            ELSE /\ pc' = [pc EXCEPT ![s] = "escaped"]
                 /\ UNCHANGED regVars
    /\ UNCHANGED <<chanVars, query_text, search_type, response, fetched, idx, results, exc,
                   emitted, wire, saved, opVars>>

\* What the client may send first.  NullValue is JSON null; Malformed is a
\* frame that is not a JSON object (receive_json or data.get raises).
NullValue == "<null>"
Malformed == [query |-> "<malformed>", search_type |-> "<malformed>"]
Falsy(v) == v = "" \/ v = NullValue

\* Receive without the `if not query_text` check.
ReceiveUnchecked(s, payloads) ==
    /\ pc[s] = "receive"
    /\ IF chan[s] # "open"
       THEN /\ Raise(s, Exc(WebSocketDisconnect, <<"1001">>))
            /\ UNCHANGED <<query_text, search_type>>
       ELSE \E data \in payloads :
              IF data = Malformed
              THEN /\ Raise(s, Exc(OtherException, <<"JSONDecodeError">>))
                   /\ UNCHANGED <<query_text, search_type>>
              ELSE /\ query_text' = [query_text EXCEPT ![s] = Get(data, "query", "")]
                   /\ search_type' = [search_type EXCEPT ![s] = Get(data, "search_type", "tavily")]
                   /\ pc' = [pc EXCEPT ![s] = "send_status"]
                   /\ UNCHANGED <<exc, regVars>>
    /\ UNCHANGED <<session_id, chanVars, response, fetched, idx, results, emitted, wire, saved, opVars>>

\* data = await websocket.receive_json(), and the code up to the first send.
Receive(s, payloads) ==
    /\ pc[s] = "receive"
    /\ IF chan[s] # "open"
       THEN /\ Raise(s, Exc(WebSocketDisconnect, <<"1001">>))
            /\ UNCHANGED <<query_text, search_type>>
       ELSE \E data \in payloads :
              IF data = Malformed
              THEN /\ Raise(s, Exc(OtherException, <<"JSONDecodeError">>))
                   /\ UNCHANGED <<query_text, search_type>>
              ELSE /\ query_text' = [query_text EXCEPT ![s] = Get(data, "query", "")]
                   /\ search_type' = [search_type EXCEPT ![s] = Get(data, "search_type", "tavily")]
                   /\ pc' = [pc EXCEPT ![s] =
                               IF Falsy(query_text'[s]) THEN "send_required" ELSE "send_status"]
                   /\ UNCHANGED <<exc, regVars>>
    /\ UNCHANGED <<session_id, chanVars, response, fetched, idx, results, emitted, wire, saved, opVars>>

\* The send of error{"Query text is required"}, and the return.
SendRequired(s) ==
    /\ pc[s] = "send_required"
    /\ IF chan[s] = "open"
       THEN /\ Sent(s, ErrorEvent(RequiredMessage))
            /\ pc' = [pc EXCEPT ![s] = "returned"]
            /\ UNCHANGED <<exc, regVars>>
       ELSE \E e \in SendFailures :
              /\ NotSent(s, ErrorEvent(RequiredMessage))
              /\ Raise(s, e)
    /\ UNCHANGED <<session_id, chanVars, query_text, search_type, response, fetched, idx,
                   results, saved, opVars>>

\* The send of the status event; then results = [] and search_streaming is
\* entered: search_type.lower() raises on None, else the provider is called.
SendStatus(s) ==
    /\ pc[s] = "send_status"
    /\ IF chan[s] = "open"
       THEN /\ Sent(s, StatusEvent)
            /\ IF search_type[s] = NullValue
               THEN /\ exc' = [exc EXCEPT ![s] =
                                 Exc(OtherException, <<"'NoneType' object has no attribute 'lower'">>)]
                    /\ pc' = [pc EXCEPT ![s] = "send_failed"]
               ELSE /\ pc' = [pc EXCEPT ![s] = "fetch"]
                    /\ UNCHANGED exc
            /\ UNCHANGED regVars
       ELSE \E e \in SendFailures :
              /\ NotSent(s, StatusEvent)
              /\ Raise(s, e)
    /\ results' = [results EXCEPT ![s] = << >>]
    /\ UNCHANGED <<session_id, chanVars, query_text, search_type, response, fetched, idx,
                   saved, opVars>>

\* Fetch with the adapter's failure read as an empty result list.
FetchSwallows(s, tavily, serper) ==
    /\ pc[s] = "fetch"
    /\ \E resp \in (IF Lower(search_type[s]) = "serper" THEN serper ELSE tavily) :
         LET r == search_streaming_fetch(search_type[s], resp) IN
         /\ response' = [response EXCEPT ![s] = resp]
         /\ fetched' = [fetched EXCEPT ![s] = r.results]
         /\ idx' = [idx EXCEPT ![s] = 1]
         /\ pc' = [pc EXCEPT ![s] = IF r.results = << >> THEN "save" ELSE "send_source"]
         /\ UNCHANGED exc
    /\ UNCHANGED <<session_id, chanVars, regVars, query_text, search_type, results,
                   emitted, wire, saved, opVars>>

\* search_streaming after its provider call: the adapter's exception is
\* re-raised to the endpoint's `except Exception` around the search, else the
\* loop starts (or, with no results, is over and the save is called).
Fetch(s, tavily, serper) ==
    /\ pc[s] = "fetch"
    /\ \E resp \in (IF Lower(search_type[s]) = "serper" THEN serper ELSE tavily) :
         LET r == search_streaming_fetch(search_type[s], resp) IN
         /\ response' = [response EXCEPT ![s] = resp]
         /\ IF r.exc # NoExc
            THEN /\ exc' = [exc EXCEPT ![s] = r.exc]
                 /\ pc' = [pc EXCEPT ![s] = "send_failed"]
                 /\ UNCHANGED <<fetched, idx>>
            ELSE /\ fetched' = [fetched EXCEPT ![s] = r.results]
                 /\ idx' = [idx EXCEPT ![s] = 1]
                 /\ pc' = [pc EXCEPT ![s] = IF r.results = << >> THEN "save" ELSE "send_source"]
                 /\ UNCHANGED exc
    /\ UNCHANGED <<session_id, chanVars, regVars, query_text, search_type, results,
                   emitted, wire, saved, opVars>>

\* SendSource with a loop that steps over every second result.
SendSourceSkips(s) ==
    /\ pc[s] = "send_source"
    /\ LET result == fetched[s][idx[s]] IN
       IF chan[s] = "open"
       THEN /\ Sent(s, SourceEvent(result))
            /\ results' = [results EXCEPT ![s] = Append(@, result)]
            /\ IF idx[s] + 1 < Len(fetched[s])
               THEN /\ idx' = [idx EXCEPT ![s] = @ + 2]
                    /\ UNCHANGED pc
               ELSE /\ pc' = [pc EXCEPT ![s] = "save"]
                    /\ UNCHANGED idx
            /\ UNCHANGED exc
       ELSE \E e \in SendFailures :
              /\ NotSent(s, SourceEvent(result))
              /\ exc' = [exc EXCEPT ![s] = e]
              /\ pc' = [pc EXCEPT ![s] = "send_failed"]
              /\ UNCHANGED <<results, idx>>
    /\ UNCHANGED <<session_id, chanVars, regVars, query_text, search_type, response, fetched,
                   saved, opVars>>

\* result_callback for fetched[idx]: the send of the source event, the
\* append, and search_streaming's sleep and loop step.  A failed send leaves
\* the callback and search_streaming as an exception, which the endpoint's
\* `except Exception` around the search catches.
SendSource(s) ==
    /\ pc[s] = "send_source"
    /\ LET result == fetched[s][idx[s]] IN
       IF chan[s] = "open"
       THEN /\ Sent(s, SourceEvent(result))
            /\ results' = [results EXCEPT ![s] = Append(@, result)]
            /\ IF idx[s] < Len(fetched[s])
               THEN /\ idx' = [idx EXCEPT ![s] = @ + 1]
                    /\ UNCHANGED pc
               ELSE /\ pc' = [pc EXCEPT ![s] = "save"]
                    /\ UNCHANGED idx
            /\ UNCHANGED exc
       ELSE \E e \in SendFailures :
              /\ NotSent(s, SourceEvent(result))
              /\ exc' = [exc EXCEPT ![s] = e]
              /\ pc' = [pc EXCEPT ![s] = "send_failed"]
              /\ UNCHANGED <<results, idx>>
    /\ UNCHANGED <<session_id, chanVars, regVars, query_text, search_type, response, fetched,
                   saved, opVars>>

\* SendFailed without the return: the endpoint goes on to the save.
SendFailedContinues(s) ==
    /\ pc[s] = "send_failed"
    /\ IF chan[s] = "open"
       THEN /\ Sent(s, ErrorEvent(SearchFailedMessage(exc[s])))
            /\ pc' = [pc EXCEPT ![s] = "save"]
            /\ UNCHANGED <<exc, regVars>>
       ELSE \E e \in SendFailures :
              /\ NotSent(s, ErrorEvent(SearchFailedMessage(exc[s])))
              /\ Raise(s, e)
    /\ UNCHANGED <<session_id, chanVars, query_text, search_type, response, fetched, idx,
                   results, saved, opVars>>

\* The send of error{"Search failed: ..."}, and the return.
SendFailed(s) ==
    /\ pc[s] = "send_failed"
    /\ IF chan[s] = "open"
       THEN /\ Sent(s, ErrorEvent(SearchFailedMessage(exc[s])))
            /\ pc' = [pc EXCEPT ![s] = "returned"]
            /\ UNCHANGED <<exc, regVars>>
       ELSE \E e \in SendFailures :
              /\ NotSent(s, ErrorEvent(SearchFailedMessage(exc[s])))
              /\ Raise(s, e)
    /\ UNCHANGED <<session_id, chanVars, query_text, search_type, response, fetched, idx,
                   results, saved, opVars>>

\* Save without the try around it: the store's exception reaches the outer
\* handler.
SavePropagates(s, outcomes) ==
    /\ pc[s] = "save"
    /\ \E raised \in outcomes :
         /\ saved' = [saved EXCEPT ![s] =
                        [called |-> TRUE, query_text |-> query_text[s],
                         search_results |-> results[s], session_id |-> session_id[s],
                         raised |-> raised]]
         /\ IF raised
            THEN Raise(s, Exc(OtherException, <<"store">>))
            ELSE /\ pc' = [pc EXCEPT ![s] = "send_done"]
                 /\ UNCHANGED <<exc, regVars>>
    /\ UNCHANGED <<session_id, chanVars, query_text, search_type, response, fetched,
                   idx, results, emitted, wire, opVars>>

\* Save called without the session_id.
SaveWithoutSession(s, outcomes) ==
    /\ pc[s] = "save"
    /\ \E raised \in outcomes :
         saved' = [saved EXCEPT ![s] =
                     [called |-> TRUE, query_text |-> query_text[s],
                      search_results |-> results[s], session_id |-> "",
                      raised |-> raised]]
    /\ pc' = [pc EXCEPT ![s] = "send_done"]
    /\ UNCHANGED <<session_id, chanVars, regVars, query_text, search_type, response, fetched,
                   idx, results, exc, emitted, wire, opVars>>

\* Save behind a lock shared by the sessions and held across the await.
SaveWaitsForOthers(s, outcomes) ==
    /\ pc[s] = "save"
    /\ \A t \in Sessions \ {s} : pc[t] # "save"
    /\ \E raised \in outcomes :
         saved' = [saved EXCEPT ![s] =
                     [called |-> TRUE, query_text |-> query_text[s],
                      search_results |-> results[s], session_id |-> session_id[s],
                      raised |-> raised]]
    /\ pc' = [pc EXCEPT ![s] = "send_done"]
    /\ UNCHANGED <<session_id, chanVars, regVars, query_text, search_type, response, fetched,
                   idx, results, exc, emitted, wire, opVars>>

\* await graph_service.save_query_and_sources(query_text, results,
\* session_id) inside its own try: an exception is logged and dropped.
\* `outcomes` says whether the store may raise.
Save(s, outcomes) ==
    /\ pc[s] = "save"
    /\ \E raised \in outcomes :
         saved' = [saved EXCEPT ![s] =
                     [called |-> TRUE, query_text |-> query_text[s],
                      search_results |-> results[s], session_id |-> session_id[s],
                      raised |-> raised]]
    /\ pc' = [pc EXCEPT ![s] = "send_done"]
    /\ UNCHANGED <<session_id, chanVars, regVars, query_text, search_type, response, fetched,
                   idx, results, exc, emitted, wire, opVars>>

\* The send of done{total_results: len(results)}, and the return.
SendDone(s) ==
    /\ pc[s] = "send_done"
    /\ IF chan[s] = "open"
       THEN /\ Sent(s, DoneEvent(Len(results[s])))
            /\ pc' = [pc EXCEPT ![s] = "returned"]
            /\ UNCHANGED <<exc, regVars>>
       ELSE \E e \in SendFailures :
              /\ NotSent(s, DoneEvent(Len(results[s])))
              /\ Raise(s, e)
    /\ UNCHANGED <<session_id, chanVars, query_text, search_type, response, fetched, idx,
                   results, saved, opVars>>

\* SendWsError without the try around the send: its failure leaves the
\* endpoint, and the disconnect is not reached.
SendWsErrorEscapes(s) ==
    /\ pc[s] = "send_wserror"
    /\ IF chan[s] = "open"
       THEN /\ Sent(s, ErrorEvent(WebSocketErrorMessage(exc[s])))
            /\ active_connections' = disconnect(active_connections, session_id[s])
            /\ lastOp' = [lastOp EXCEPT ![session_id[s]] = Disconnected]
            /\ pc' = [pc EXCEPT ![s] = "torn_down"]
       ELSE /\ NotSent(s, ErrorEvent(WebSocketErrorMessage(exc[s])))
            /\ pc' = [pc EXCEPT ![s] = "escaped"]
            /\ UNCHANGED regVars
    /\ UNCHANGED <<session_id, chanVars, query_text, search_type, response, fetched, idx,
                   results, exc, saved, opVars>>

\* `except Exception`: the send of error{"WebSocket error: ..."} inside a
\* bare try/except, then the disconnect.
SendWsError(s) ==
    /\ pc[s] = "send_wserror"
    /\ IF chan[s] = "open"
       THEN Sent(s, ErrorEvent(WebSocketErrorMessage(exc[s])))
       ELSE NotSent(s, ErrorEvent(WebSocketErrorMessage(exc[s])))
    /\ active_connections' = disconnect(active_connections, session_id[s])
    /\ lastOp' = [lastOp EXCEPT ![session_id[s]] = Disconnected]
    /\ pc' = [pc EXCEPT ![s] = "torn_down"]
    /\ UNCHANGED <<session_id, chanVars, query_text, search_type, response, fetched, idx,
                   results, exc, saved, opVars>>

Ended(s) == pc[s] \in {"returned", "torn_down", "escaped"}

\* The peer of WebSocket c goes away (at any time before its task is over).
TransportDrop(c) ==
    /\ chan[c] = "open"
    /\ ~Ended(c)
    /\ chan' = [chan EXCEPT ![c] = "closed"]
    /\ UNCHANGED <<sessVars, regVars, opVars>>

\* ------------------------------- the registry's other operations

\* manager.disconnect(client_id), called by any task (the endpoint's
\* handlers, handle_client_connection).
RegistryDisconnect(client_id) ==
    /\ active_connections' = disconnect(active_connections, client_id)
    /\ lastOp' = [lastOp EXCEPT ![client_id] = Disconnected]
    /\ UNCHANGED <<sessVars, chanVars, opVars>>

\* send_personal_message(message, client_id): the lookup, and the write to
\* the WebSocket found, whose exception leaves the method.
SendPersonalMessage(client_id) ==
    /\ LET websocket == DictGet(active_connections, client_id)
           after == lastOp[client_id] = Disconnected
       IN IF websocket # None
          THEN IF chan[websocket] = "open"
               THEN pm' = [client_id |-> client_id, websocket |-> websocket,
                           wrote |-> TRUE, raised |-> "", after_disconnect |-> after]
               ELSE \E e \in SendFailures :
                      pm' = [client_id |-> client_id, websocket |-> websocket,
                             wrote |-> FALSE, raised |-> e.type, after_disconnect |-> after]
          ELSE pm' = [client_id |-> client_id, websocket |-> None,
                      wrote |-> FALSE, raised |-> "", after_disconnect |-> after]
    /\ UNCHANGED <<sessVars, chanVars, regVars, bc, storeVars>>

\* The head of broadcast's for loop over active_connections.items(): the
\* next item, the end of the loop, or the iterator's RuntimeError.
BroadcastAdvance(b, active) ==
    LET n == DictIterNext(active, b.it) IN
    CASE n.kind = "item" ->
           [b EXCEPT !.state = "sending", !.it = n.it,
                     !.client_id = n.item.key, !.websocket = n.item.value]
      [] n.kind = "stop" -> [b EXCEPT !.state = "returned"]
      [] OTHER -> [b EXCEPT !.state = "raised", !.exc = "RuntimeError"]

LiveItems(d) == {<<d[i].key, d[i].value>> : i \in DictLive(d)}

\* broadcast(message) is called: the iterator is made and the first write
\* is started.
BroadcastCall ==
    /\ bc.state = "idle"
    /\ bc' = BroadcastAdvance(
               [bc EXCEPT !.it = DictIter(active_connections),
                          !.registered = LiveItems(active_connections)],
               active_connections)
    /\ UNCHANGED <<sessVars, chanVars, regVars, pm, storeVars>>

\* The write broadcast is suspended in completes: on WebSocketDisconnect
\* the client is disconnected inside the loop; any other exception leaves
\* broadcast.  Then the loop goes on.
BroadcastResume ==
    /\ bc.state = "sending"
    /\ LET b == [bc EXCEPT !.visits = Append(@, bc.websocket)] IN
       IF chan[bc.websocket] = "open"
       THEN /\ bc' = BroadcastAdvance([b EXCEPT !.written = @ \cup {bc.websocket}],
                                      active_connections)
            /\ UNCHANGED regVars
       ELSE \E e \in SendFailures :
              IF e.type = WebSocketDisconnect
              THEN /\ active_connections' = disconnect(active_connections, bc.client_id)
                   /\ lastOp' = [lastOp EXCEPT ![bc.client_id] = Disconnected]
                   /\ bc' = BroadcastAdvance(
                              [b EXCEPT !.reported = @ \cup {bc.websocket},
                                        !.removed = @ \cup {bc.client_id}],
                              active_connections')
              ELSE /\ bc' = [b EXCEPT !.state = "raised", !.exc = e.type]
                   /\ UNCHANGED regVars
    /\ UNCHANGED <<sessVars, chanVars, pm, storeVars>>

\* ------------------------------------------------- GraphService
\* str.strip() on the URLs the model uses.
Strip(u) == IF u = " " THEN "" ELSE u

\* MERGE (q:Query {text: $query_text}) SET q.timestamp = datetime() and, in
\* the branch taken when session_id is truthy, q.session_id = $session_id.
\* A node created by the other branch has no session_id property.
SetQuery(q, now, sid) ==
    IF Falsy(sid)
    THEN [q EXCEPT !.timestamp = now]
    ELSE [q EXCEPT !.timestamp = now, !.session_id = sid]
\* The statement with CREATE for MERGE.
CreateQuery(qs, text, now, sid) ==
    Append(qs, SetQuery([text |-> text, timestamp |-> now, session_id |-> Absent], now, sid))
MergeQuery(qs, text, now, sid) ==
    IF \E k \in 1..Len(qs) : qs[k].text = text
    THEN [k \in 1..Len(qs) |-> IF qs[k].text = text THEN SetQuery(qs[k], now, sid) ELSE qs[k]]
    ELSE Append(qs, SetQuery([text |-> text, timestamp |-> now, session_id |-> Absent], now, sid))

\* MERGE (s:Source {url: $url}) SET s.title, s.snippet, s.source,
\* s.fetch_time = datetime().
SetSource(n, r, now) ==
    [n EXCEPT !.title = r.title, !.snippet = r.content, !.source = r.source,
              !.fetch_time = now]
MergeSource(ss, r, now) ==
    IF \E k \in 1..Len(ss) : ss[k].url = r.url
    THEN [k \in 1..Len(ss) |-> IF ss[k].url = r.url THEN SetSource(ss[k], r, now) ELSE ss[k]]
    ELSE Append(ss, SetSource([url |-> r.url, title |-> "", snippet |-> "", source |-> "",
                               fetch_time |-> now], r, now))

\* The link statement without its match on the URL.
MergeRefAll(rs, qs, ss, text, url) ==
    rs \cup { <<a, b>> \in (1..Len(qs)) \X (1..Len(ss)) : qs[a].text = text }
\* MATCH (q:Query {text}) MATCH (s:Source {url}) MERGE (q)-[:REFERENCES]->(s),
\* over node positions.
MergeRef(rs, qs, ss, text, url) ==
    rs \cup { <<a, b>> \in (1..Len(qs)) \X (1..Len(ss)) : qs[a].text = text /\ ss[b].url = url }

\* The loop without its test of the URL.
NextUrlAny(rs, i) == IF i <= Len(rs) THEN i ELSE Len(rs) + 1
\* The loop over search_results from position i on: the next result whose
\* URL is not blank, or Len + 1.
NextUrl(rs, i) ==
    IF \E j \in i..Len(rs) : Strip(rs[j].url) # ""
    THEN CHOOSE j \in i..Len(rs) :
           /\ Strip(rs[j].url) # ""
           /\ \A k \in i..(j - 1) : Strip(rs[k].url) = ""
    ELSE Len(rs) + 1

Min(a, b) == IF a <= b THEN a ELSE b

\* MATCH (q:Query) RETURN q.text AS query, q.timestamp AS timestamp
\* ORDER BY q.timestamp DESC LIMIT $limit: the row lists the store may
\* return (nodes of equal timestamp come in any order).
Orders(qs) ==
    { f \in [1..Len(qs) -> 1..Len(qs)] :
        /\ \A a, b \in 1..Len(qs) : f[a] = f[b] => a = b
        /\ \A a, b \in 1..Len(qs) : a < b => qs[f[a]].timestamp >= qs[f[b]].timestamp }
\* The statement without its LIMIT.
RowsUnlimited(qs, limit) ==
    { [k \in 1..Len(qs) |-> [query |-> qs[f[k]].text, timestamp |-> qs[f[k]].timestamp]] :
        f \in Orders(qs) }
Rows(qs, limit) ==
    { [k \in 1..Min(limit, Len(qs)) |->
          [query |-> qs[f[k]].text, timestamp |-> qs[f[k]].timestamp]] : f \in Orders(qs) }

\* startup_event: await graph_service.connect().  Without the package
\* connect returns; with it the driver is made and "RETURN 1" is run, whose
\* failure is logged and raised again, out of the startup handler.
StartupEvent ==
    /\ startup = "pending"
    /\ IF ~NEO4J_AVAILABLE
       THEN startup' = "complete" /\ UNCHANGED driver
       ELSE /\ driver' = "driver"
            /\ startup' = IF store_reachable THEN "complete" ELSE "raised"
    /\ UNCHANGED <<sessVars, chanVars, regVars, pm, bc, NEO4J_AVAILABLE, store_reachable,
                   graphVars, task, requests>>

\* What the caller does with the outcome of the save, up to its next await
\* or its end: query_endpoint returns the QueryResponse, or turns any
\* exception into HTTP 500; the streaming endpoint drops the exception and
\* goes on to send `done`.
HttpError == 500
Responded(kind) == [NoTask EXCEPT !.kind = kind, !.pc = "responded"]
Finished(tk, e) ==
    IF tk.kind = "stream"
    THEN [Responded(tk.kind) EXCEPT !.done = TRUE,
                                    !.total_results = Len(tk.search_results)]
    ELSE IF e = NoExc
    THEN [Responded(tk.kind) EXCEPT !.status = HttpOk, !.results = tk.search_results]
    ELSE [Responded(tk.kind) EXCEPT !.status = HttpError,
                                    !.detail = <<"Error processing query: ">> \o e.msg]

StoreFailure == Exc(OtherException, <<"store">>)
\* save_query_and_sources is left: by its return (e = NoExc) or by the
\* exception e, which its caller receives (save_exc).
SaveEnded(tk, e) == [Finished(tk, e) EXCEPT !.save_exc = e]
NoDriver == Exc(OtherException, <<"Neo4j driver not initialized. Call connect() first.">>)

LogCall(log, tk, e) ==
    IF e # NoExc
    THEN [log EXCEPT !.raised = TRUE]
    ELSE [log EXCEPT !.texts = @ \cup {tk.query_text},
                     !.results = @ \cup {tk.search_results[k] : k \in 1..Len(tk.search_results)}]
LogQuery(log, text, now, sid) ==
    [log EXCEPT !.query[text] = [NoMerge EXCEPT !.n = 1, !.timestamp = now, !.session_id = sid]]
LogSource(log, r, now) ==
    [log EXCEPT !.source[r.url] = [NoMerge EXCEPT !.n = 1, !.timestamp = now, !.title = r.title,
                                                  !.snippet = r.content, !.source = r.source]]

\* POST /query arrives: query_endpoint is entered and suspends in the search.
\* QueryRequest.search_type is Optional[str] = "tavily".
QueryRequest(c, reqs) ==
    /\ startup = "complete"
    /\ task[c].pc \in {"idle", "responded"}
    /\ requests < MaxRequests
    /\ \E req \in reqs :
         task' = [task EXCEPT ![c] =
                    [NoTask EXCEPT !.kind = "query", !.pc = "search",
                                   !.query_text = req.query,
                                   !.search_type = Get(req, "search_type", "tavily"),
                                   !.session_id = NullValue]]
    /\ requests' = requests + 1
    /\ UNCHANGED <<sessVars, chanVars, regVars, pm, bc, svcVars, graphVars>>

\* search_service.search returns or raises (None has no lower()); then
\* save_query_and_sources is called with no session_id.
QuerySearch(c, tavily, serper) ==
    /\ task[c].pc = "search"
    /\ IF task[c].search_type = NullValue
       THEN task' = [task EXCEPT ![c] =
                       Finished(@, Exc(OtherException,
                                       <<"'NoneType' object has no attribute 'lower'">>))]
       ELSE \E resp \in (IF Lower(task[c].search_type) = "serper" THEN serper ELSE tavily) :
              LET r == search(task[c].search_type, resp) IN
              IF r.exc # NoExc
              THEN task' = [task EXCEPT ![c] = Finished(@, r.exc)]
              ELSE task' = [task EXCEPT ![c].pc = "save", ![c].search_results = r.results]
    /\ UNCHANGED <<sessVars, chanVars, regVars, pm, bc, svcVars, graphVars, requests>>

\* The persisting stage of a streaming session: save_query_and_sources is
\* called with the query, the accumulated results and the session_id.
StreamPersist(c, calls) ==
    /\ startup = "complete"
    /\ task[c].pc \in {"idle", "responded"}
    /\ requests < MaxRequests
    /\ \E call \in calls :
         task' = [task EXCEPT ![c] =
                    [NoTask EXCEPT !.kind = "stream", !.pc = "save",
                                   !.query_text = call.query_text,
                                   !.search_results = call.search_results,
                                   !.session_id = call.session_id]]
    /\ requests' = requests + 1
    /\ UNCHANGED <<sessVars, chanVars, regVars, pm, bc, svcVars, graphVars>>

\* save_query_and_sources up to the end of its first statement: the checks
\* of the package and of the driver, then the MERGE of the query node; the
\* loop then skips the results whose URL is blank.  An exception of the
\* store is logged and raised again.
SaveQuery(c, store_raises) ==
    /\ task[c].pc = "save"
    /\ LET tk == task[c] IN
       IF ~NEO4J_AVAILABLE
       THEN /\ task' = [task EXCEPT ![c] = SaveEnded(tk, NoExc)]
            /\ saveLog' = LogCall(saveLog, tk, NoExc)
            /\ UNCHANGED <<queries, clock>>
       ELSE IF driver = "None"
       THEN /\ task' = [task EXCEPT ![c] = SaveEnded(tk, NoDriver)]
            /\ saveLog' = LogCall(saveLog, tk, NoDriver)
            /\ UNCHANGED <<queries, clock>>
       ELSE \E fails \in store_raises :
              IF fails
              THEN /\ task' = [task EXCEPT ![c] = SaveEnded(tk, StoreFailure)]
                   /\ saveLog' = LogCall(saveLog, tk, StoreFailure)
                   /\ UNCHANGED <<queries, clock>>
              ELSE \E now \in {clock + 1} :
                     LET j == NextUrl(tk.search_results, 1)
                         log == LogQuery(saveLog, tk.query_text, now, tk.session_id) IN
                     /\ queries' = MergeQuery(queries, tk.query_text, now, tk.session_id)
                     /\ clock' = now
                     /\ IF j > Len(tk.search_results)
                        THEN /\ task' = [task EXCEPT ![c] = SaveEnded(tk, NoExc)]
                             /\ saveLog' = LogCall(log, tk, NoExc)
                        ELSE /\ task' = [task EXCEPT ![c].pc = "save_source", ![c].i = j]
                             /\ saveLog' = log
    /\ UNCHANGED <<sessVars, chanVars, regVars, pm, bc, svcVars, sources, refs, requests>>

\* The MERGE of the source node of search_results[i].
SaveSource(c, store_raises) ==
    /\ task[c].pc = "save_source"
    /\ LET tk == task[c] IN
       \E fails \in store_raises :
         IF fails
         THEN /\ task' = [task EXCEPT ![c] = SaveEnded(tk, StoreFailure)]
              /\ saveLog' = LogCall(saveLog, tk, StoreFailure)
              /\ UNCHANGED <<sources, clock>>
         ELSE \E now \in {clock + 1} :
                /\ sources' = MergeSource(sources, tk.search_results[tk.i], now)
                /\ clock' = now
                /\ saveLog' = LogSource(saveLog, tk.search_results[tk.i], now)
                /\ task' = [task EXCEPT ![c].pc = "save_ref"]
    /\ UNCHANGED <<sessVars, chanVars, regVars, pm, bc, svcVars, queries, refs, requests>>

\* The MERGE of the relationship from the query to that source; then the
\* loop goes on, or the save returns.
SaveRef(c, store_raises) ==
    /\ task[c].pc = "save_ref"
    /\ LET tk == task[c] IN
       \E fails \in store_raises :
         IF fails
         THEN /\ task' = [task EXCEPT ![c] = SaveEnded(tk, StoreFailure)]
              /\ saveLog' = LogCall(saveLog, tk, StoreFailure)
              /\ UNCHANGED refs
         ELSE LET j == NextUrl(tk.search_results, tk.i + 1) IN
              /\ refs' = MergeRef(refs, queries, sources, tk.query_text,
                                  tk.search_results[tk.i].url)
              /\ IF j > Len(tk.search_results)
                 THEN /\ task' = [task EXCEPT ![c] = SaveEnded(tk, NoExc)]
                      /\ saveLog' = LogCall(saveLog, tk, NoExc)
                 ELSE /\ task' = [task EXCEPT ![c].pc = "save_source", ![c].i = j]
                      /\ UNCHANGED saveLog
    /\ UNCHANGED <<sessVars, chanVars, regVars, pm, bc, svcVars, queries, sources, clock,
                   requests>>

\* GET /history?limit=...: the route is entered and suspends in
\* get_query_history.
HistoryRequest(c, limits) ==
    /\ startup = "complete"
    /\ task[c].pc \in {"idle", "responded"}
    /\ \E limit \in limits :
         task' = [task EXCEPT ![c] = [NoTask EXCEPT !.kind = "history", !.pc = "history",
                                                    !.limit = limit]]
    /\ UNCHANGED <<sessVars, chanVars, regVars, pm, bc, svcVars, graphVars, requests>>

\* get_query_history: [] without the package, an exception without a
\* driver, else the rows of the statement; the route answers
\* {"history": ...} or HTTP 500.
HistoryRun(c, store_raises) ==
    /\ task[c].pc = "history"
    /\ LET tk == task[c]
           failed(e) == [Responded(tk.kind) EXCEPT
                           !.status = HttpError,
                           !.detail = <<"Error retrieving query history: ">> \o e.msg] IN
       IF ~NEO4J_AVAILABLE
       THEN task' = [task EXCEPT ![c] = [Responded(tk.kind) EXCEPT !.limit = tk.limit,
                                                                   !.status = HttpOk]]
       ELSE IF driver = "None"
       THEN task' = [task EXCEPT ![c] = failed(NoDriver)]
       ELSE \E fails \in store_raises :
              IF fails
              THEN task' = [task EXCEPT ![c] = failed(StoreFailure)]
              ELSE \E h \in Rows(queries, tk.limit) :
                     task' = [task EXCEPT ![c] = [Responded(tk.kind) EXCEPT
                                                    !.limit = tk.limit, !.status = HttpOk,
                                                    !.history = h]]
    /\ UNCHANGED <<sessVars, chanVars, regVars, pm, bc, svcVars, graphVars, requests>>

\* ------------------------------------------- inputs and specifications

QueryValues == {Absent, "", NullValue, "q1"}
SearchTypeValues == {Absent, NullValue, "tavily", "Serper", "SERPER", "bing"}
Payloads == [query : QueryValues, search_type : SearchTypeValues]

\* A step of one session's task, or of its peer.  `in` gives the inputs the
\* environment may supply: payloads, provider responses, store outcomes.
SessionStep(s, in) ==
    \/ Accept(s)
    \/ Receive(s, in.payloads)
    \/ SendRequired(s)
    \/ SendStatus(s)
    \/ Fetch(s, in.tavily, in.serper)
    \/ SendSource(s)
    \/ SendFailed(s)
    \/ Save(s, in.store_raises)
    \/ SendDone(s)
    \/ SendWsError(s)
    \/ TransportDrop(s)

\* One session, every input.
AllInputs ==
    [payloads |-> Payloads \cup {Malformed},
     tavily |-> TavilyResponses(MaxItems) \cup {TransportFailure},
     serper |-> SerperResponses(MaxItems) \cup {TransportFailure},
     store_raises |-> BOOLEAN]

NextSession == SessionStep(1, AllInputs)

SpecSession == Init /\ [][NextSession]_vars


\* Several sessions at once.  The first two run the whole endpoint on a small
\* set of inputs; the client of any further one connects and stays silent
\* (it may go away, which tears its session down): the registry is all that
\* sessions share.
SmallPayloads == [query : {"", "q1"}, search_type : {"tavily"}] \cup {Malformed}
SmallItem == [title |-> "t1", url |-> "u1", content |-> "c1"]
SmallResponses ==
    { TransportFailure,
      [status_code |-> HttpOk, answer |-> Absent, results |-> << >>],
      [status_code |-> HttpOk, answer |-> Absent, results |-> << SmallItem >>] }
SmallInputs ==
    [payloads |-> SmallPayloads, tavily |-> SmallResponses, serper |-> {},
     store_raises |-> BOOLEAN]
SilentInputs == [payloads |-> {}, tavily |-> {}, serper |-> {}, store_raises |-> {}]
Talkers == {s \in Sessions : s <= 2}

Next ==
    \E s \in Sessions :
       SessionStep(s, IF s \in Talkers THEN SmallInputs ELSE SilentInputs)

Spec == Init /\ [][Next]_vars

\* The same sessions, the task of the first one scheduled fairly: each of
\* its awaits (the receive, a channel write, the provider call, the sleep,
\* the store call) eventually returns or fails, whatever the others do.
SpecLive == Init /\ [][Next]_vars /\ WF_vars(SessionStep(1, SmallInputs))

\* One session runs the endpoint, the others connect and stay silent, and
\* any task sends by id.
TinyInputs ==
    [payloads |-> [query : {"", "q1"}, search_type : {"tavily"}],
     tavily |-> {[status_code |-> HttpOk, answer |-> Absent, results |-> << SmallItem >>]},
     serper |-> {}, store_raises |-> {FALSE}]

NextSend ==
    \/ \E s \in Sessions :
          SessionStep(s, IF s = 1 THEN TinyInputs ELSE SilentInputs)
    \/ \E id \in SessionIds : SendPersonalMessage(id)

SpecSend == Init /\ [][NextSend]_vars

\* The registry alone: connects (the head of the endpoint), disconnects and
\* sends by id from any task, a broadcast, and peers going away.
NextRegistry ==
    \/ \E s \in Sessions : Accept(s)
    \/ \E id \in SessionIds : RegistryDisconnect(id)
    \/ \E id \in SessionIds : SendPersonalMessage(id)
    \/ BroadcastCall
    \/ BroadcastResume
    \/ \E c \in Channels : TransportDrop(c)

SpecRegistry == Init /\ [][NextRegistry]_vars

\* The store and its callers: the startup handler, POST /query, the
\* persisting stage of streaming sessions, GET /history.
StoreStep(c, in) ==
    \/ QueryRequest(c, in.requests)
    \/ QuerySearch(c, in.tavily, in.serper)
    \/ StreamPersist(c, in.calls)
    \/ SaveQuery(c, in.store_raises)
    \/ SaveSource(c, in.store_raises)
    \/ SaveRef(c, in.store_raises)
    \/ HistoryRequest(c, in.limits)
    \/ HistoryRun(c, in.store_raises)

StoreItems ==
    << [title |-> "t1", url |-> "u1", content |-> "c1"],
       [title |-> "t2", url |-> "u1", content |-> "c2"],
       [title |-> "t3", url |-> " ",  content |-> "c3"],
       [title |-> "t4", url |-> Absent, content |-> "c4"] >>
\* Result lists with a repeated URL, a blank URL and no URL.
StoreTavily ==
    { TransportFailure } \cup
    { [status_code |-> HttpOk, answer |-> Absent, results |-> SubSeq(StoreItems, a, b)] :
        a \in {1, 3}, b \in 0..Len(StoreItems) }
StoreSerper ==
    { [status_code |-> HttpOk, organic |-> << [title |-> "t5", link |-> "u2", snippet |-> "c5"] >>,
       relatedSearches |-> << >>] }
\* The first caller posts queries; the second persists for streaming
\* sessions and reads the history.
QueryInputs ==
    [requests |-> { [query |-> "q1", search_type |-> Absent],
                    [query |-> "q2", search_type |-> NullValue],
                    [query |-> "q3", search_type |-> "Serper"] },
     tavily |-> {r \in StoreTavily :
                   r = TransportFailure \/ Len(r.results) \in {0} \cup (2..MaxItems)},
     serper |-> StoreSerper,
     calls |-> {}, limits |-> {}, store_raises |-> BOOLEAN]
StreamInputs ==
    [requests |-> {}, tavily |-> {}, serper |-> {},
     calls |-> { [query_text |-> q, search_results |-> search_tavily(r).results,
                  session_id |-> "a"] :
                   q \in {"q1", "q2"},
                   r \in {x \in StoreTavily : x # TransportFailure /\ Len(x.results) = 1
                                                /\ x.results[1].url = "u1"} },
     limits |-> {1, 2},
     store_raises |-> BOOLEAN]

InitStore == InitServer /\ \E available, reachable \in BOOLEAN : StoreInit(available, reachable)

NextStore ==
    \/ StartupEvent
    \/ \E c \in Callers : StoreStep(c, IF c = "c1" THEN QueryInputs ELSE StreamInputs)

SpecStore == InitStore /\ [][NextStore]_vars

\* Streaming sessions persisting side by side: both callers are in the
\* persisting stage, with result lists in which URLs repeat, are empty or
\* are blank.
SaveItems ==
    << SearchResult("t1", "u1", "c1", "tavily"),
       SearchResult("t2", "u1", "c2", "tavily"),
       SearchResult("t3", "u2", "c3", "tavily"),
       SearchResult("t4", "",   "c4", "tavily"),
       SearchResult("t5", " ",  "c5", "tavily") >>
\* The runs of at most n consecutive items.
SaveLists(n) ==
    UNION { { SubSeq(SaveItems, a, b) : b \in (a - 1)..Min(a + n - 1, Len(SaveItems)) } :
              a \in 1..Len(SaveItems) }
\* The first caller persists any of these lists, the second a single result.
LongCalls ==
    { [query_text |-> "q1", search_results |-> rs, session_id |-> "a"] :
        rs \in SaveLists(MaxItems) }
ShortCalls ==
    { [query_text |-> "q1", search_results |-> rs, session_id |-> "a"] :
        rs \in {<<SaveItems[1]>>, <<SaveItems[3]>>} }
SaveCalls(c) == IF c = "c1" THEN LongCalls ELSE ShortCalls
SaveStep(c) ==
    \/ StreamPersist(c, SaveCalls(c))
    \/ SaveQuery(c, BOOLEAN)
    \/ SaveSource(c, BOOLEAN)
    \/ SaveRef(c, BOOLEAN)

NextSave ==
    \/ StartupEvent
    \/ \E c \in Callers : SaveStep(c)

SpecSave == InitStore /\ [][NextSave]_vars

\* ------------------------------------------------------------ claims

Events(s, kind) == SelectSeq(emitted[s], LAMBDA e : e.event = kind)
Count(s, kind) == Len(Events(s, kind))
Written(ev) == [ev EXCEPT !.ok = TRUE]
\* The index of the first emission whose write failed, or 0.
FirstFailure(s) ==
    IF \E i \in 1..Len(emitted[s]) : ~emitted[s][i].ok
    THEN CHOOSE i \in 1..Len(emitted[s]) :
           ~emitted[s][i].ok /\ \A j \in 1..(i - 1) : emitted[s][j].ok
    ELSE 0
FullFetch(s) == search(search_type[s], response[s])
AdapterFailed(s) == response[s] # NoResponse /\ FullFetch(s).exc # NoExc

\* C1: when the search succeeded and save_query_and_sources raised, the
\* session still emits exactly one done event, after every source event,
\* and its total_results is the number of source events emitted.
C1_DoneDespiteSaveFailure ==
    \A s \in Sessions :
      (saved[s].called /\ saved[s].raised /\ pc[s] # "send_done") =>
        /\ Count(s, "done") = 1
        /\ Events(s, "done")[1].total_results = Count(s, "source")
        /\ \E i \in 1..Len(emitted[s]) :
             /\ emitted[s][i].event = "done"
             /\ \A j \in 1..Len(emitted[s]) : emitted[s][j].event = "source" => j < i

C1_Witness ==
    \E s \in Sessions :
      /\ saved[s].raised
      /\ pc[s] = "returned"
      /\ Count(s, "source") >= 2
      /\ emitted[s][Len(emitted[s])] = Written(DoneEvent(Count(s, "source")))

\* C2: the callbacks search_streaming has made are, at every moment, the
\* first results of the full fetch search(query, search_type), one callback
\* per result and in its order, and once search_streaming has returned the
\* endpoint's accumulator is the full-fetch list.
C2_StreamingMatchesFullFetch ==
    \A s \in Sessions :
      response[s] # NoResponse =>
        LET full == FullFetch(s).results
            callbacks == Events(s, "source")
        IN /\ Len(callbacks) <= Len(full)
           /\ \A i \in 1..Len(callbacks) : Written(callbacks[i]) = Written(SourceEvent(full[i]))
           /\ Len(results[s]) <= Len(callbacks)
           /\ \A i \in 1..Len(results[s]) : results[s][i] = full[i]
           /\ (pc[s] = "save" \/ saved[s].called) =>
                 /\ results[s] = full
                 /\ Len(callbacks) = Len(full)

C2_Witness ==
    \E s \in Sessions :
      /\ pc[s] = "save"
      /\ Lower(search_type[s]) = "serper"
      /\ Len(results[s]) >= 2
      /\ results[s][1] # results[s][2]
      /\ results[s] = FullFetch(s).results

EmptyQuery(s) == query_text[s] \in {"", NullValue}

\* C3 as stated: with an empty or missing query the session emits exactly
\* one error event, "Query text is required", no other event, and makes no
\* provider call and no persistence call.
C3_ExactlyOneError ==
    \A s \in Sessions :
      (EmptyQuery(s) /\ pc[s] # "send_required") =>
        /\ emitted[s] # << >>
        /\ emitted[s][1].event = "error"
        /\ emitted[s][1].message = RequiredMessage
        /\ Len(emitted[s]) = 1
        /\ response[s] = NoResponse
        /\ ~saved[s].called

\* C3, amended: with an empty or missing query the session first emits the
\* error event "Query text is required", emits no status, source or done
\* event, and makes no provider call and no persistence call; the only other
\* event it can emit is one "WebSocket error" error event, and only after the
\* write of the first failed with an exception other than
\* WebSocketDisconnect.
C3_EmptyQueryErrorOnly ==
    \A s \in Sessions :
      EmptyQuery(s) =>
        /\ response[s] = NoResponse
        /\ ~saved[s].called
        /\ Count(s, "error") = Len(emitted[s])
        /\ pc[s] # "send_required" =>
             /\ emitted[s] # << >>
             /\ Written(emitted[s][1]) = Written(ErrorEvent(RequiredMessage))
        /\ Len(emitted[s]) <= 2
        /\ Len(emitted[s]) = 2 =>
             /\ ~emitted[s][1].ok
             /\ exc[s].type = OtherException
             /\ emitted[s][2].message = WebSocketErrorMessage(exc[s])

C3_Witness ==
    \E s \in Sessions :
      /\ query_text[s] = ""
      /\ pc[s] = "returned"
      /\ emitted[s] = << Written(ErrorEvent(RequiredMessage)) >>

\* C4: when the provider adapter fails (a status other than 200, or a
\* transport failure) the session emits, right after the status event, an
\* error event with the message "Search failed: " followed by the failure's
\* message, and makes no persistence call (and emits no source or done).
C4_SearchFailureReported ==
    \A s \in Sessions :
      AdapterFailed(s) =>
        /\ ~saved[s].called
        /\ Count(s, "done") = 0
        /\ Count(s, "source") = 0
        /\ pc[s] # "send_failed" =>
             /\ Len(emitted[s]) >= 2
             /\ emitted[s][2].event = "error"
             /\ emitted[s][2].message = <<"Search failed: ">> \o FullFetch(s).exc.msg

C4_Witness ==
    \E s \in Sessions :
      /\ AdapterFailed(s)
      /\ response[s].status_code = 500
      /\ pc[s] = "returned"
      /\ emitted[s][2] = Written(ErrorEvent(<<"Search failed: ", "Tavily API error: ", "500">>))

\* The transport went away while the search was in flight and the failure
\* surfaced at a source event: the status event, sent right before the
\* search starts, was written, and the write of a source event failed.
LostDuringSearch(s) ==
    /\ FirstFailure(s) > 1
    /\ emitted[s][1] = Written(StatusEvent)
    /\ emitted[s][FirstFailure(s)].event = "source"

\* C6 as stated, where the emission that follows the loss of the transport
\* is a source event: when the transport goes away while the search is in
\* flight, then from the emission that fails on, the session attempts exactly
\* one error event, makes no persistence call, emits no done event, and ends
\* with its id removed from the registry.
C6_OneErrorAfterDisconnect ==
    \A s \in Sessions :
      (LostDuringSearch(s) /\ pc[s] = "torn_down") =>
        LET k == FirstFailure(s) IN
        /\ Cardinality({i \in (k + 1)..Len(emitted[s]) : emitted[s][i].event = "error"}) = 1
        /\ \A i \in (k + 1)..Len(emitted[s]) : emitted[s][i].event # "done"
        /\ emitted[s][k].event # "done" => ~saved[s].called
        /\ ~DictHas(active_connections, session_id[s])


\* A step of session s in which a channel write or the receive failed.
FailsInStep(s) ==
    \/ /\ Len(emitted'[s]) > Len(emitted[s])
       /\ ~emitted'[s][Len(emitted'[s])].ok
    \/ /\ pc[s] = "receive"
       /\ exc'[s] # exc[s]

\* C5: once the session is open, every failure (a failed channel write, a
\* failed receive) leads into the handlers and never to a normal return; the
\* handlers end the controller with the session's id absent from the
\* registry; a failed send of the best-effort error event is swallowed; and
\* no exception leaves the controller.
C5_FailureTearsDown ==
    [][\A s \in Sessions :
         /\ pc'[s] = "escaped" => pc[s] \in {"start", "escaped"}
         /\ FailsInStep(s) => pc'[s] \in {"send_failed", "send_wserror", "torn_down"}
         /\ (pc[s] = "send_failed" /\ FailsInStep(s)) => pc'[s] \in {"send_wserror", "torn_down"}
         /\ (pc[s] = "send_wserror" /\ pc'[s] # pc[s]) => pc'[s] = "torn_down"
         /\ (pc[s] # "torn_down" /\ pc'[s] = "torn_down") =>
               ~DictHas(active_connections', session_id[s])
         /\ pc'[s] = "returned" => \A i \in 1..Len(emitted'[s]) : emitted'[s][i].ok
      ]_vars

C5_Witness ==
    \E s, t \in Sessions :
      /\ pc[s] = "torn_down"
      /\ Len(emitted[s]) >= 2
      /\ emitted[s][Len(emitted[s])] = ErrorEvent(WebSocketErrorMessage(exc[s]))
      /\ ~DictHas(active_connections, session_id[s])
      /\ DictGet(active_connections, session_id[t]) = t

\* C7 as stated: after disconnect(session_id), every send for that id is a
\* no-op, the sends of the streaming controller included: no send by id
\* writes or raises, and the controller of a session whose id has been
\* disconnected makes no write and meets no failed write.
C7_AllSendsNoOp ==
    [][/\ (pm' # pm /\ pm'.after_disconnect) => (~pm'.wrote /\ pm'.raised = "")
       /\ \A s \in Sessions :
            (pc[s] # "start" /\ lastOp[session_id[s]] = Disconnected) =>
               emitted'[s] = emitted[s]
      ]_vars

\* C7, amended: after disconnect(session_id), and until a connect for that
\* id, every send_personal_message to that id finds no WebSocket, writes
\* nothing and raises nothing.  (The controller's own sends go to the
\* WebSocket it holds and are not covered.)
C7_SendByIdAfterDisconnect ==
    pm.after_disconnect => (pm.websocket = None /\ ~pm.wrote /\ pm.raised = "")

C7_Witness ==
    /\ pm.after_disconnect
    /\ pm.client_id = session_id[1]
    /\ pc[1] = "send_source"
    /\ chan[1] = "open"
    /\ ~pm.wrote

RegistryMatchesHistory ==
    /\ \A id \in SessionIds :
         IF lastOp[id].op = "connect"
         THEN DictGet(active_connections, id) = lastOp[id].websocket
         ELSE ~DictHas(active_connections, id) /\ DictGet(active_connections, id) = None
    /\ \A i, j \in DictLive(active_connections) :
         active_connections[i].key = active_connections[j].key => i = j

\* C8: at every moment the registry holds at most one entry per id, which
\* is the WebSocket of the latest connect for the id when no disconnect of
\* the id followed it, and no entry otherwise; a disconnect of an id that is
\* absent leaves the dict as it is.
C8_RegistryIsLatestConnect ==
    /\ []RegistryMatchesHistory
    /\ [][\A id \in SessionIds :
            (RegistryDisconnect(id) /\ ~DictHas(active_connections, id)) =>
               active_connections' = active_connections]_vars

C8_Witness ==
    \E id, other \in SessionIds :
      /\ session_id[1] = id /\ pc[1] = "receive"
      /\ session_id[2] = id /\ pc[2] = "receive"
      /\ DictGet(active_connections, id) = 2
      /\ lastOp[other] = Disconnected
      /\ Len(active_connections) = 1

BroadcastOver == bc.state \in {"returned", "raised"}
Visited == {bc.visits[i] : i \in 1..Len(bc.visits)}

\* C9 as stated, for a broadcast during which no other task changes the
\* registry and every failed write reports a disconnect: broadcast writes
\* to every WebSocket registered when it was called, removes exactly the ids
\* whose write reported a disconnect, delivers to all the others, and
\* returns without raising.
C9_BroadcastDelivers ==
    (/\ BroadcastOver
     /\ bc.exc # OtherException
     /\ LiveItems(active_connections) = {x \in bc.registered : x[1] \notin bc.removed}) =>
       /\ bc.state = "returned"
       /\ Visited = {x[2] : x \in bc.registered}
       /\ bc.removed = {x[1] : x \in {y \in bc.registered : y[2] \in bc.reported}}
       /\ bc.written = {x[2] : x \in bc.registered} \ bc.reported

\* C10 as stated, for a broadcast none of whose writes fails: whatever
\* connects and disconnects other tasks make while it is suspended in a
\* write, broadcast returns without raising, writes to no WebSocket twice,
\* and skips no WebSocket that was registered when it was called and still
\* is when it ends.
C10_BroadcastSafeUnderMutation ==
    (BroadcastOver /\ bc.exc # OtherException /\ bc.reported = {}) =>
       /\ bc.state = "returned"
       /\ \A i, j \in 1..Len(bc.visits) : bc.visits[i] = bc.visits[j] => i = j
       /\ \A x \in bc.registered \cap LiveItems(active_connections) : x[2] \in Visited

\* C11 as stated: once a streaming session has completed (the endpoint
\* returned after `done`, after the empty-query `error`, or after a
\* "Search failed" `error`), the registry holds no entry for its session-id
\* (none that maps the id to the session's WebSocket).
C11_NothingRetainedAfterCompletion ==
    \A s \in Sessions :
       pc[s] = "returned" => DictGet(active_connections, session_id[s]) # s

\* ----------------------------------------------- claims: the store
SaveInFlight == \E c \in Callers : task[c].pc \in {"save", "save_source", "save_ref"}
StoredTexts == {queries[k].text : k \in 1..Len(queries)}
StoredUrls == {sources[k].url : k \in 1..Len(sources)}
OneNodePerKey ==
    /\ \A a, b \in 1..Len(queries) : queries[a].text = queries[b].text => a = b
    /\ \A a, b \in 1..Len(sources) : sources[a].url = sources[b].url => a = b
AllSavesReturned == NEO4J_AVAILABLE /\ ~SaveInFlight /\ ~saveLog.raised

\* C12 as stated: after any sequence of save calls that all returned, the
\* store holds exactly one query node per distinct text saved and exactly
\* one source node per distinct non-empty URL among the saved results, and
\* none for the empty URL.
C12_OneRecordPerNonEmptyUrl ==
    AllSavesReturned =>
       /\ OneNodePerKey
       /\ StoredTexts = saveLog.texts
       /\ StoredUrls = {r.url : r \in {x \in saveLog.results : x.url # ""}}

\* C12, amended: after any sequence of save calls that all returned, the
\* store holds exactly one query node per distinct text saved and exactly
\* one source node per distinct URL among the saved results that is not
\* blank (empty once stripped of white space); a result whose URL is blank
\* never produces a source node.  No key ever has two nodes.
C12_OneRecordPerKey ==
    /\ OneNodePerKey
    /\ \A u \in StoredUrls : Strip(u) # ""
    /\ AllSavesReturned =>
          /\ StoredTexts = saveLog.texts
          /\ StoredUrls = {r.url : r \in {x \in saveLog.results : Strip(x.url) # ""}}

C12_Witness ==
    /\ AllSavesReturned
    /\ requests >= 2
    /\ Len(queries) = 1
    /\ Len(sources) = 1
    /\ \E x, y \in saveLog.results : x.url = "u1" /\ y.url = "u1" /\ x # y
    /\ \E x, y \in saveLog.results : x.url = "" /\ y.url = " "

\* C13 as stated: a query node carries the timestamp and the session-id of
\* the most recent save of its text (no session-id when that save passed
\* none), and a source node the title, snippet, source and fetch-time of the
\* most recent result saved with its URL.
C13_LastWriteWins ==
    /\ \A k \in 1..Len(queries) :
         LET last == saveLog.query[queries[k].text] IN
         /\ queries[k].timestamp = last.timestamp
         /\ queries[k].session_id = (IF Falsy(last.session_id) THEN Absent ELSE last.session_id)
    /\ \A k \in 1..Len(sources) :
         LET last == saveLog.source[sources[k].url] IN
         /\ sources[k].fetch_time = last.timestamp
         /\ sources[k].title = last.title
         /\ sources[k].snippet = last.snippet
         /\ sources[k].source = last.source

\* The rows h are the min(limit, number of nodes) query nodes of latest
\* timestamp, newest first, each text once at the timestamp of its latest
\* save.
IsRecent(h, qs, limit) ==
    /\ Len(h) = Min(limit, Len(qs))
    /\ \A a, b \in 1..Len(h) : a < b => h[a].timestamp >= h[b].timestamp
    /\ \A a, b \in 1..Len(h) : h[a].query = h[b].query => a = b
    /\ \A a \in 1..Len(h) :
         /\ \E k \in 1..Len(qs) : qs[k].text = h[a].query /\ qs[k].timestamp = h[a].timestamp
         /\ h[a].timestamp = saveLog.query[h[a].query].timestamp
    /\ \A k \in 1..Len(qs) :
         (\A a \in 1..Len(h) : h[a].query # qs[k].text) =>
            \A a \in 1..Len(h) : qs[k].timestamp <= h[a].timestamp

\* C14: whenever GET /history answers, its rows are the min(limit, number of
\* query nodes) query nodes with the latest timestamps, newest first, a text
\* saved again counting once at the timestamp of its latest save.
C14_RecentIsLatest ==
    [][\A c \in Callers :
         (task[c].pc = "history" /\ task'[c].pc = "responded" /\ task'[c].status = HttpOk) =>
            IsRecent(task'[c].history, queries, task[c].limit)]_vars

C14_Witness ==
    \E c \in Callers :
      /\ task[c].kind = "history" /\ task[c].pc = "responded" /\ task[c].status = HttpOk
      /\ task[c].limit = 2
      /\ Len(queries) = 3
      /\ Len(task[c].history) = 2
      /\ task[c].history[1].timestamp > task[c].history[2].timestamp
      /\ \E k \in 1..Len(queries) : queries[k].timestamp < task[c].history[2].timestamp

\* C15 as stated: when the store does not answer at startup, startup still
\* completes, no save raises or persists anything, and every history
\* request is answered with an empty list.
C15_DegradedWhenUnreachable ==
    ~store_reachable =>
       /\ startup \in {"pending", "complete"}
       /\ queries = << >> /\ sources = << >> /\ refs = {}
       /\ ~saveLog.raised
       /\ \A c \in Callers :
            (task[c].kind = "history" /\ task[c].pc = "responded") =>
               (task[c].status = HttpOk /\ task[c].history = << >>)

\* C16 as stated, for POST /query (the streaming side is C1): a request
\* whose search succeeded is answered with the results; no answer is an
\* error caused by the save.
C16_SaveFailureNotSurfaced ==
    \A c \in Callers :
       (task[c].kind = "query" /\ task[c].pc = "responded") =>
          /\ task[c].detail # <<"Error processing query: ">> \o StoreFailure.msg
          /\ task[c].detail # <<"Error processing query: ">> \o NoDriver.msg

\* ------------------------------------- claims: the streaming session
NonEmptyQuery(s) == query_text[s] # Unset /\ ~EmptyQuery(s)
AllDelivered(s) == \A i \in 1..Len(emitted[s]) : emitted[s][i].ok

\* C17 as stated, on the streaming interface: with a search_type that is not
\* "serper" in any letter case, provider A is called (the session does not
\* fail before any provider call) and every result is provider A's; with
\* "serper" in any case every result is provider B's.
C17_DefaultsToTavily ==
    \A s \in Sessions :
      (NonEmptyQuery(s) /\ AllDelivered(s)) =>
         /\ pc[s] = "send_failed" => response[s] # NoResponse
         /\ \A i \in 1..Len(fetched[s]) :
              fetched[s][i].source =
                 (IF Lower(search_type[s]) = "serper" THEN "serper" ELSE "tavily")

StagesInOrder ==
    \A s \in Sessions :
      NonEmptyQuery(s) =>
        LET e == emitted[s]
            n == Len(emitted[s])
            m == Count(s, "source")
        IN /\ n >= 1 => e[1].event = "status"
           /\ \A i \in 2..n : e[i].event # "status"
           /\ \A i \in 1..n :
                e[i].event = "source" =>
                   /\ i >= 2 /\ i - 1 <= Len(fetched[s])
                   /\ \A j \in 1..(i - 1) : e[j].ok /\ e[j].event \in {"status", "source"}
                   /\ Written(e[i]) = Written(SourceEvent(fetched[s][i - 1]))
           /\ saved[s].called =>
                /\ m = Len(fetched[s])
                /\ \A i \in 1..(m + 1) : e[i].ok
                /\ results[s] = fetched[s]
                /\ saved[s].query_text = query_text[s]
                /\ saved[s].search_results = results[s]
                /\ saved[s].session_id = session_id[s]
           /\ \A i \in 1..n :
                e[i].event = "done" =>
                   /\ saved[s].called
                   /\ i = m + 2
                   /\ e[i].total_results = m
                   /\ e[i].ok => (i = n /\ pc[s] = "returned")
           /\ (pc[s] = "returned" /\ Count(s, "error") = 0) =>
                (Count(s, "done") = 1 /\ AllDelivered(s))

\* C18: in a session with a non-empty query the first emission is the
\* status event and there is no other; the source events follow it, one per
\* result and in the provider's order; the save is called at most once,
\* after the last source event, with the query, the accumulated results and
\* the session-id; the done event comes after the save, once, with the
\* number of source events, and once it is delivered the endpoint has
\* returned and emits nothing more.  A session that returns without an
\* error event went through all of these.
C18_StagesInOrder ==
    /\ []StagesInOrder
    /\ [][\A s \in Sessions : saved'[s] # saved[s] => (pc[s] = "save" /\ ~saved[s].called)]_vars

C18_Witness ==
    \E s \in Sessions :
      /\ pc[s] = "returned"
      /\ Count(s, "source") = 2
      /\ saved[s].called
      /\ emitted[s][4] = Written(DoneEvent(2))

\* C19: in every session, whatever fails (the search, the save, channel
\* writes), at most one done or error event is delivered to the client, and
\* nothing is delivered after it.
C19_OneTerminalEvent ==
    \A s \in Sessions :
      LET T == {i \in 1..Len(emitted[s]) :
                  emitted[s][i].ok /\ emitted[s][i].event \in {"done", "error"}}
      IN /\ Cardinality(T) <= 1
         /\ \A i \in T : \A j \in (i + 1)..Len(emitted[s]) : ~emitted[s][j].ok

C19_Witness ==
    \E s \in Sessions :
      /\ AdapterFailed(s)
      /\ pc[s] = "torn_down"
      /\ Count(s, "error") = 2
      /\ emitted[s][1] = Written(StatusEvent)

\* C20: a session that has received its initial payload eventually ends (it
\* returned or was torn down), each of its awaits eventually returning or
\* failing, even when every other session stays suspended forever where it
\* is.
C20_SessionTerminates ==
    (pc[1] \notin {"start", "receive"}) ~> Ended(1)

C20_Witness ==
    /\ pc[1] = "returned"
    /\ Count(1, "done") = 1
    /\ pc[2] = "save"


\* ---------------------------------------------------------------------
\* Isolation of concurrent streaming sessions
\* ---------------------------------------------------------------------

\* The events of session s whose write reached the peer, in order.
Delivered(s) == SelectSeq(emitted[s], LAMBDA e : e.ok)

\* C21: under every interleaving of the streaming sessions, two of them
\* opened with the same session-id included, what has been written to a
\* WebSocket is exactly, and in order, what the session that opened it has
\* emitted and got through, and nothing of another session; the results a
\* session has accumulated are a prefix of its own provider response, the
\* list it hands to save is that list with its own query and id, and the
\* total_results of its done is the length of that list.
C21_SessionsIsolated ==
    /\ \A c \in Channels :
         /\ Len(wire[c]) = Len(Delivered(c))
         /\ \A i \in 1..Len(wire[c]) :
              wire[c][i] = [task |-> c, message |-> Delivered(c)[i]]
    /\ \A s \in Sessions :
         /\ results[s] # << >> =>
              /\ response[s] # NoResponse
              /\ Len(results[s]) <= Len(FullFetch(s).results)
              /\ \A i \in 1..Len(results[s]) : results[s][i] = FullFetch(s).results[i]
         /\ saved[s].called =>
              /\ saved[s].search_results = results[s]
              /\ saved[s].query_text = query_text[s]
              /\ saved[s].session_id = session_id[s]
         /\ \A i \in 1..Len(emitted[s]) :
              emitted[s][i].event = "done" =>
                emitted[s][i].total_results = Len(results[s])

\* Two sessions opened with the same id have both run to their done, one
\* with a result and one without, each done delivered on its own WebSocket.
C21_Witness ==
    \E s, t \in Sessions :
      /\ s # t
      /\ session_id[s] = session_id[t]
      /\ pc[s] = "returned" /\ pc[t] = "returned"
      /\ Len(results[s]) = 1 /\ Len(results[t]) = 0
      /\ saved[s].called /\ saved[t].called
      /\ \E i \in 1..Len(wire[s]) :
           wire[s][i].message.event = "done" /\ wire[s][i].message.total_results = 1
      /\ \E i \in 1..Len(wire[t]) :
           wire[t][i].message.event = "done" /\ wire[t][i].message.total_results = 0


\* The registry entry under the session's id is the WebSocket of session t.
Registered(reg, t) ==
    /\ DictHas(reg, session_id[t])
    /\ DictGet(reg, session_id[t]) = t

\* C22 as stated: a session's teardown removes from the registry only the
\* WebSocket that this session registered; in every step in which a
\* session is torn down, the entry that another, still running session
\* holds in the registry is still there afterwards.
C22_TeardownKeepsOthers ==
    [][\A s, t \in Sessions :
         ( /\ s # t
           /\ pc[s] # "torn_down" /\ pc'[s] = "torn_down"
           /\ ~Ended(t)
           /\ Registered(active_connections, t) )
         => Registered(active_connections', t)]_vars


\* ---------------------------------------------------------------------
\* A save that fails part-way
\* ---------------------------------------------------------------------

TextsOf(qs) == {qs[k].text : k \in 1..Len(qs)}
UrlsOf(ss) == {ss[k].url : k \in 1..Len(ss)}
\* The URLs of the source nodes the query node of this text references.
LinkedUrls(rs, qs, ss, text) == {ss[p[2]].url : p \in {x \in rs : qs[x[1]].text = text}}
\* The URLs of the results before position k: those that are not empty, and
\* those that are not blank.
NonEmptyBefore(tk, k) ==
    {tk.search_results[j].url : j \in {x \in 1..(k - 1) : tk.search_results[x].url # ""}}
NonBlankBefore(tk, k) ==
    {tk.search_results[j].url : j \in {x \in 1..(k - 1) : Strip(tk.search_results[x].url) # ""}}

InSave(c) == task[c].pc \in {"save", "save_source", "save_ref"}
\* The step in which the save of caller c ends, and the one in which it
\* ends by an exception.
SaveEnds(c) == InSave(c) /\ task'[c].pc = "responded"
SaveFails(c) == SaveEnds(c) /\ task'[c].save_exc # NoExc
\* The save of caller c is the only one the store has seen.
OnlySave(c) == requests = 1 /\ InSave(c)

\* A save that ends without an exception has made every upsert (or none,
\* without the graph package).
SaveComplete(c) ==
    (SaveEnds(c) /\ task'[c].save_exc = NoExc /\ NEO4J_AVAILABLE) =>
       LET tk == task[c]
           all == NonBlankBefore(tk, Len(tk.search_results) + 1) IN
       /\ tk.query_text \in TextsOf(queries')
       /\ all \subseteq LinkedUrls(refs', queries', sources', tk.query_text)

\* C23 as stated: a save that fails while processing the k-th result leaves
\* in the store the query node and the source nodes and links of the
\* non-empty-URL results before the k-th, has written nothing for the k-th
\* and later results, and raises; a save that fails before the query upsert
\* leaves the store unchanged.
C23_NothingForKth ==
    [][\A c \in Callers :
         /\ SaveComplete(c)
         /\ SaveFails(c) =>
              LET tk == task[c]
                  before == NonEmptyBefore(tk, tk.i) IN
              IF tk.pc = "save"
              THEN queries' = queries /\ sources' = sources /\ refs' = refs
              ELSE /\ tk.query_text \in TextsOf(queries')
                   /\ before \subseteq UrlsOf(sources')
                   /\ before \subseteq LinkedUrls(refs', queries', sources', tk.query_text)
                   /\ OnlySave(c) =>
                        /\ TextsOf(queries') = {tk.query_text}
                        /\ UrlsOf(sources') = before
                        /\ LinkedUrls(refs', queries', sources', tk.query_text) = before]_vars

\* What one statement of the save of caller c may change in the store: the
\* query MERGE the node of its text, the source MERGE of result i the node
\* of that URL, the link MERGE the link from that query to that source; a
\* statement that fails changes nothing.
StatementFrame(c) ==
    LET tk == task[c] IN
    (InSave(c) /\ task'[c] # tk) =>
       /\ SaveFails(c) => queries' = queries /\ sources' = sources /\ refs' = refs
       /\ tk.pc = "save" =>
            /\ sources' = sources /\ refs' = refs
            /\ TextsOf(queries') \subseteq TextsOf(queries) \cup {tk.query_text}
            /\ \A k \in 1..Len(queries) :
                 queries[k].text # tk.query_text => queries'[k] = queries[k]
       /\ tk.pc = "save_source" =>
            /\ queries' = queries /\ refs' = refs
            /\ UrlsOf(sources') \subseteq UrlsOf(sources) \cup {tk.search_results[tk.i].url}
            /\ \A k \in 1..Len(sources) :
                 sources[k].url # tk.search_results[tk.i].url => sources'[k] = sources[k]
       /\ tk.pc = "save_ref" =>
            /\ queries' = queries /\ sources' = sources
            /\ refs \subseteq refs'
            /\ \A p \in refs' \ refs :
                 /\ queries[p[1]].text = tk.query_text
                 /\ sources[p[2]].url = tk.search_results[tk.i].url

\* C23, amended: each statement of a save is an upsert of its own, and a
\* failing statement changes nothing and is raised to the caller.  A save
\* that fails while processing the k-th result that is not blank leaves the
\* query node and the source nodes and links of the non-blank results
\* before the k-th; of the k-th it has written the source node when the
\* failing statement is the link, and nothing otherwise; it has written
\* nothing for later results.  A save that fails at or before the query
\* upsert leaves the store unchanged.
C23_UpsertBySteps ==
    [][\A c \in Callers :
         /\ SaveComplete(c)
         /\ StatementFrame(c)
         /\ SaveFails(c) =>
              LET tk == task[c]
                  before == NonBlankBefore(tk, tk.i)
                  kth == IF tk.pc = "save_ref" THEN {tk.search_results[tk.i].url} ELSE {} IN
              IF tk.pc = "save"
              THEN queries' = queries /\ sources' = sources /\ refs' = refs
              ELSE /\ Strip(tk.search_results[tk.i].url) # ""
                   /\ tk.query_text \in TextsOf(queries')
                   /\ (before \cup kth) \subseteq UrlsOf(sources')
                   /\ before \subseteq LinkedUrls(refs', queries', sources', tk.query_text)
                   /\ OnlySave(c) =>
                        /\ TextsOf(queries') = {tk.query_text}
                        /\ UrlsOf(sources') = before \cup kth
                        /\ LinkedUrls(refs', queries', sources', tk.query_text) = before]_vars

\* The only save so far has raised at the link of its second result: the
\* first result is stored and linked, the second stored and not linked.
C23_Witness ==
    \E c \in Callers :
      /\ requests = 1
      /\ task[c].pc = "responded"
      /\ task[c].save_exc = StoreFailure
      /\ UrlsOf(sources) = {"u1", "u2"}
      /\ LinkedUrls(refs, queries, sources, "q1") = {"u1"}


\* ---------------------------------------------------------------------
\* total_results against the sources a save links
\* ---------------------------------------------------------------------

\* The step in which the save of a streaming session returns normally, with
\* the graph package available; done follows with total_results.
StreamSaved(c) ==
    /\ SaveEnds(c)
    /\ task[c].kind = "stream"
    /\ NEO4J_AVAILABLE
    /\ task'[c].save_exc = NoExc
HasEmptyUrl(rs) == \E j \in 1..Len(rs) : rs[j].url = ""
HasBlankUrl(rs) == \E j \in 1..Len(rs) : Strip(rs[j].url) = ""
SharesUrl(rs) == \E j, l \in 1..Len(rs) : j # l /\ rs[j].url = rs[l].url

\* C24 as stated: when a streaming session's save has succeeded,
\* total_results is the number of streamed results, those with an empty URL
\* included, and the query node references exactly the distinct non-empty
\* URLs among them (this save being the only one the store has seen): at
\* most total_results sources, and fewer whenever a result has an empty URL
\* or two results share a URL.
C24_LinksNonEmptyUrls ==
    [][\A c \in Callers :
         StreamSaved(c) =>
            LET tk == task[c]
                rs == tk.search_results
                linked == LinkedUrls(refs', queries', sources', tk.query_text) IN
            /\ task'[c].done
            /\ task'[c].total_results = Len(rs)
            /\ OnlySave(c) =>
                 /\ linked = NonEmptyBefore(tk, Len(rs) + 1)
                 /\ Cardinality(linked) <= task'[c].total_results
                 /\ (HasEmptyUrl(rs) \/ SharesUrl(rs)) =>
                       Cardinality(linked) < task'[c].total_results]_vars

\* C24, amended: when a streaming session's save has succeeded with the
\* graph package available, total_results is the number of streamed
\* results, those with a blank URL included, and the query node references
\* every distinct URL among them that is not blank; when this save is the
\* only one the store has seen it references exactly those: at most
\* total_results sources, and fewer whenever a result has a blank URL or
\* two results share a URL.
C24_LinksNonBlankUrls ==
    [][\A c \in Callers :
         StreamSaved(c) =>
            LET tk == task[c]
                rs == tk.search_results
                own == NonBlankBefore(tk, Len(rs) + 1)
                linked == LinkedUrls(refs', queries', sources', tk.query_text) IN
            /\ task'[c].done
            /\ task'[c].total_results = Len(rs)
            /\ own \subseteq linked
            /\ OnlySave(c) =>
                 /\ linked = own
                 /\ Cardinality(linked) <= task'[c].total_results
                 /\ (HasBlankUrl(rs) \/ SharesUrl(rs)) =>
                       Cardinality(linked) < task'[c].total_results]_vars

\* The only save so far was given two results with one URL and has
\* returned: done counts two results, the query node references one source.
C24_Witness ==
    \E c \in Callers :
      /\ requests = 1
      /\ NEO4J_AVAILABLE
      /\ task[c].pc = "responded" /\ task[c].done
      /\ task[c].save_exc = NoExc
      /\ task[c].total_results = 2
      /\ LinkedUrls(refs, queries, sources, "q1") = {"u1"}


\* ---------------------------------------------------------------------
\* The order of an adapter's result list
\* ---------------------------------------------------------------------

HasAnswer(r) == r.answer # Absent /\ r.answer # ""

\* C25: the list an adapter returns is, for Tavily, the summary result
\* (title "Summary Answer", empty URL, the answer as content) first exactly
\* when the response has a non-empty answer, then one result per item in
\* response order; for Serper, one result per organic item in response
\* order, then one "Related: " result per related search in response order,
\* with an empty URL and the related query as content; a response whose
\* status is not 200 (or no response at all) yields an exception and no
\* result.
C25_AdapterOrder ==
    \A s \in Sessions :
      response[s] # NoResponse =>
        LET r == response[s]
            f == fetched[s] IN
        IF r = TransportFailure \/ r.status_code # HttpOk
        THEN /\ f = << >>
             /\ results[s] = << >>
             /\ Count(s, "source") = 0
             /\ pc[s] = "send_failed" => exc[s].type = OtherException
             /\ pc[s] \notin {"send_source", "save", "send_done"}
             /\ ~saved[s].called
        ELSE IF Lower(search_type[s]) = "serper"
        THEN /\ Len(f) = Len(r.organic) + Len(r.relatedSearches)
             /\ \A i \in 1..Len(r.organic) :
                  /\ f[i].title = Get(r.organic[i], "title", "")
                  /\ f[i].url = Get(r.organic[i], "link", "")
                  /\ f[i].content = Get(r.organic[i], "snippet", "")
                  /\ f[i].source = "serper"
             /\ \A i \in 1..Len(r.relatedSearches) :
                  LET x == f[Len(r.organic) + i] IN
                  /\ x.title = RelatedTitle(Get(r.relatedSearches[i], "query", ""))
                  /\ x.url = ""
                  /\ x.content = Get(r.relatedSearches[i], "query", "")
                  /\ x.source = "serper"
        ELSE LET off == IF HasAnswer(r) THEN 1 ELSE 0 IN
             /\ Len(f) = off + Len(r.results)
             /\ HasAnswer(r) =>
                  f[1] = [title |-> "Summary Answer", url |-> "", content |-> r.answer,
                          source |-> "tavily"]
             /\ ~HasAnswer(r) => \A i \in 1..Len(f) : f[i].title # "Summary Answer"
             /\ \A i \in 1..Len(r.results) :
                  /\ f[off + i].title = Get(r.results[i], "title", "")
                  /\ f[off + i].url = Get(r.results[i], "url", "")
                  /\ f[off + i].content = Get(r.results[i], "content", "")
                  /\ f[off + i].source = "tavily"

\* A Tavily response with an answer and two different items has been
\* fetched: three results, the summary first.
C25_Witness ==
    \E s \in Sessions :
      /\ response[s] # NoResponse /\ response[s] # TransportFailure
      /\ Lower(search_type[s]) # "serper"
      /\ response[s].status_code = HttpOk
      /\ HasAnswer(response[s])
      /\ Len(response[s].results) = 2
      /\ response[s].results[1] # response[s].results[2]
      /\ Len(fetched[s]) = 3
      /\ fetched[s][1].title = "Summary Answer"

====
